---- MODULE Spec2Model ----
(***************************************************************************)
(* Model of ptan/samples/dqn_tweaks_atari.py: the DQN training loop, its   *)
(* n-step target construction (batch_to_train), the epsilon schedule, the  *)
(* target-network synchronisation and the try/finally release of the       *)
(* environment pool.                                                       *)
(*                                                                         *)
(* Real numbers are fixed-point integers.  Q-values, rewards and targets   *)
(* are counted in units of 1/Scale, where Scale is a power of the          *)
(* denominator of GAMMA large enough for every multiplication by GAMMA     *)
(* that a chain of MaxSteps transitions needs to be exact.  Epsilon is     *)
(* counted in units of 1/EpsOne.                                           *)
(***************************************************************************)
EXTENDS Integers, Sequences, FiniteSets, TLC

VARIABLES
    run,                       \* the runfile options the program reads
    pc,                        \* position of the main program
    exit_reason,               \* how the try block of the main program was left
    idx,                       \* index of the outer iteration
    env_closed,                \* env_pool: which environments have been closed
    close_pos,                 \* position of the finally loop over env_pool
    buffer,                    \* exp_replay: the chains of the replay store
    inserted,                  \* exp_replay: number of chains inserted so far
    model,                     \* parameters of the online estimator
    target_net,                \* parameters of target_net.target_model
    batches_left,              \* batches the generator of line 186 still yields
    batches_done,              \* batches the loop of line 186 has taken this iteration
    batch,                     \* the batch of the current pass of the batch loop
    states,                    \* first value returned by batch_to_train
    q_vals,                    \* second value returned by batch_to_train
    total_rewards,             \* batch_to_train: bootstrap value of each chain
    batches_count,             \* running count of batches
    batches_sum_q0,            \* running sum of the mean of q0
    batches_sum_total_reward,  \* running sum of the mean target
    epsilon,                   \* action_selector.epsilon
    sync_log                   \* iterations in which target_net.sync() ran

vars == <<run, pc, exit_reason, idx, env_closed, close_pos, buffer, inserted,
          model, target_net, batches_left, batches_done, batch, states, q_vals,
          total_rewards, batches_count, batches_sum_q0,
          batches_sum_total_reward, epsilon, sync_log>>

----------------------------------------------------------------------------
(* Bounds of the model *)

\* range(10000) of line 180 is cut to range(MaxIters)
MaxIters == 3
\* longest chain the experience source emits (n_steps)
MaxSteps == 3
\* number of environments of env_pool
PoolSize == 2

----------------------------------------------------------------------------
(* Program constants *)

\* GAMMA = 0.99 as the fraction GammaNum / GammaDen
GammaNum == 99
GammaDen == 100
REPORT_ITERS == 10

----------------------------------------------------------------------------
(* Numbers *)

RECURSIVE Pow(_, _)
Pow(b, n) == IF n = 0 THEN 1 ELSE b * Pow(b, n - 1)

Max2(a, b) == IF a >= b THEN a ELSE b

\* one unit of reward or Q-value
Scale == Pow(GammaDen, MaxSteps)

\* epsilon = 1.0
EpsOne == Pow(2, MaxIters + 2)

\* GAMMA * x
GammaMul(x) == (x \div GammaDen) * GammaNum

\* x * d for a decay rate d = d.num / d.den
RateMul(x, d) == (x * d.num) \div d.den

RECURSIVE SeqSum(_)
SeqSum(s) == IF s = <<>> THEN 0 ELSE Head(s) + SeqSum(Tail(s))

----------------------------------------------------------------------------
(* Observations, actions, transitions and chains *)

States == {1, 2}
Actions == {0, 1}
Rewards == {0, 1}

\* Experience(state, action, reward, done)
Experience == [state : States, action : Actions, reward : Rewards, done : BOOLEAN]

\* a chain of the experience source: up to n transitions, done only on the last
IsChain(c, n) ==
    /\ Len(c) >= 1
    /\ Len(c) <= n
    /\ \A i \in 1..(Len(c) - 1) : ~c[i].done
    /\ (Len(c) < n => c[Len(c)].done)

RECURSIVE SeqsOfLen(_, _)
SeqsOfLen(S, n) ==
    IF n = 0 THEN {<<>>}
    ELSE {Append(s, x) : s \in SeqsOfLen(S, n - 1), x \in S}

NotDone == {e \in Experience : ~e.done}

\* every chain of exactly len transitions (done possible on the last one only)
ChainsOfLen(len) ==
    {Append(s, x) : s \in SeqsOfLen(NotDone, len - 1), x \in Experience}

\* every chain an experience source with steps_count = n can emit
Chains(n) ==
    UNION {{c \in ChainsOfLen(len) : IsChain(c, n)} : len \in 1..n}

----------------------------------------------------------------------------
(* Estimators: parameters are identified with the function they compute,    *)
(* from an observation to one Q-value per action.                            *)

Net(a1, b1, a2, b2) ==
    [s \in States |->
        [a \in Actions |->
            Scale * (IF s = 1 THEN (IF a = 0 THEN a1 ELSE b1)
                              ELSE (IF a = 0 THEN a2 ELSE b2))]]

Nets == {Net(1, 3, 2, 0), Net(4, 2, 1, 1), Net(0, 1, 3, 2)}

\* q.max(1)[0]: the largest entry of a row
RowMax(row) == CHOOSE v \in {row[a] : a \in Actions} :
                   \A a \in Actions : row[a] <= v

\* q.max(1)[1]: the index of the largest entry of a row (the first one on ties)
RowArgMax(row) == CHOOSE a \in Actions :
                      /\ row[a] = RowMax(row)
                      /\ \A b \in Actions : row[b] = RowMax(row) => a <= b

----------------------------------------------------------------------------
(* batch_to_train *)

\* target_model of lines 114-117: the target network, or the online one
target_model == IF run.use_target_dqn THEN target_net ELSE model

\* the double branch taking the target's own maximum
BootstrapValue_TargetMax(online, target, s) ==
    IF run.use_target_dqn THEN RowMax(target[s]) ELSE RowMax(online[s])

\* one entry of total_rewards (lines 151-162) for the bootstrap state s
BootstrapValue(online, target, s) ==
    IF run.use_target_dqn /\ run.use_double_dqn
    THEN target[s][RowArgMax(online[s])]
    ELSE IF run.use_target_dqn
         THEN RowMax(target[s])
         ELSE RowMax(online[s])

\* lines 169-170: for exp in reversed(exps[:k]): total = exp.reward + GAMMA * total
RECURSIVE Discount(_, _, _)
Discount(exps, k, total) ==
    IF k = 0 THEN total
    ELSE Discount(exps, k - 1, exps[k].reward * Scale + GammaMul(total))

\* the walk over exps instead of exps[:-1]
Backup_WithLast(exps, boot) ==
    Discount(exps, Len(exps), IF exps[Len(exps)].done THEN 0 ELSE boot)

\* lines 165-170: the total reward of one chain, given its bootstrap value
Backup(exps, boot) ==
    Discount(exps, Len(exps) - 1, IF exps[Len(exps)].done THEN 0 ELSE boot)

\* the entry of the last transition's action overwritten
TargetRow_LastAction(row, exps, total) ==
    [row EXCEPT ![exps[Len(exps)].action] = total]

\* line 171: row of q0 with the entry of the first action overwritten
TargetRow(row, exps, total) == [row EXCEPT ![exps[1].action] = total]

\* lines 133-139: the first and the last state of every chain
V0(b) == [i \in 1..Len(b) |-> b[i][1].state]
VL(b) == [i \in 1..Len(b) |-> b[i][Len(b[i])].state]

\* lines 151-162: total_rewards for a batch
TotalRewards(b) ==
    [i \in 1..Len(b) |-> BootstrapValue(model, target_model, VL(b)[i])]

\* lines 163-171: the total reward of every chain of the batch
ChainTotals(b) == [i \in 1..Len(b) |-> Backup(b[i], TotalRewards(b)[i])]

\* line 144 and line 171: q0 after the loop over the batch
Q0(b) == [i \in 1..Len(b) |->
             TargetRow(model[V0(b)[i]], b[i], ChainTotals(b)[i])]

\* line 148: q0.mean() over every entry of model(v0)
RowSum(row) == SeqSum([k \in 1..Cardinality(Actions) |-> row[k - 1]])
Q0Mean(b) ==
    SeqSum([i \in 1..Len(b) |-> RowSum(model[V0(b)[i]])])
        \div (Len(b) * Cardinality(Actions))

\* line 173: sum_total_reward / len(batch)
TotalMean(b) == SeqSum(ChainTotals(b)) \div Len(b)

----------------------------------------------------------------------------
(* The replay store and the epsilon schedule *)

\* a full store dropping its newest chain
Insert_EvictNewest(buf, cap, e) ==
    IF Len(buf) < cap THEN Append(buf, e)
    ELSE Append(SubSeq(buf, 1, Len(buf) - 1), e)

\* one insertion into the store of capacity cap: the oldest chain leaves
Insert(buf, cap, e) ==
    IF Len(buf) < cap THEN Append(buf, e) ELSE Append(Tail(buf), e)

RECURSIVE InsertAll(_, _, _, _)
InsertAll(buf, cap, n, new) ==
    IF new = <<>> THEN buf
    ELSE InsertAll(Insert(buf, cap, [seq |-> n + 1, exps |-> Head(new)]),
                   cap, n + 1, Tail(new))

\* number of batches of one call of batches(batch_size)
BatchCount(buf, size) == Len(buf) \div size

\* the floor applied before the decay
DecayEpsilon_FloorFirst(eps) ==
    IF run.has_epsilon_minimum
    THEN RateMul(Max2(run.epsilon_minimum, eps), run.epsilon_decay)
    ELSE RateMul(eps, run.epsilon_decay)

\* lines 202-205
DecayEpsilon(eps) ==
    IF run.has_epsilon_minimum
    THEN Max2(run.epsilon_minimum, RateMul(eps, run.epsilon_decay))
    ELSE RateMul(eps, run.epsilon_decay)

\* no synchronisation in the first iteration
SyncDue_SkipZero(i) == i > 0 /\ i % run.copy_target_net_every_epoch = 0

\* line 250
SyncDue(i) == i % run.copy_target_net_every_epoch = 0

----------------------------------------------------------------------------
(* The options of the runfile *)

Rates == {[num |-> 1, den |-> 2], [num |-> 1, den |-> 1]}

\* runfiles of the training-loop specification
RunFiles ==
    [use_target_dqn : BOOLEAN,
     use_double_dqn : BOOLEAN,
     n_steps : {2},
     size : {2},
     populate : {1, 2},
     batch_size : {1, 2},
     copy_target_net_every_epoch : {1, 2},
     epsilon : {EpsOne, EpsOne \div 2},
     epsilon_decay : Rates,
     has_epsilon_minimum : BOOLEAN,
     epsilon_minimum : {EpsOne \div 4}]

\* the chains the experience source emits in the training-loop specification
SourceChains(n) ==
    {c \in {<<[state |-> 1, action |-> 0, reward |-> 1, done |-> TRUE]>>,
            <<[state |-> 1, action |-> 1, reward |-> 0, done |-> FALSE],
              [state |-> 2, action |-> 0, reward |-> 1, done |-> FALSE]>>,
            <<[state |-> 2, action |-> 0, reward |-> 1, done |-> FALSE],
              [state |-> 1, action |-> 1, reward |-> 1, done |-> TRUE]>>} :
        IsChain(c, n)}

Envs == 1..PoolSize

----------------------------------------------------------------------------
(* The main program *)

\* lines 92-122: the state once env_pool has been created
Init ==
    /\ run \in RunFiles
    /\ pc = "setup"
    /\ exit_reason = "none"
    /\ idx = 0
    /\ env_closed = [e \in Envs |-> FALSE]
    /\ close_pos = 1
    /\ buffer = <<>>
    /\ inserted = 0
    /\ model \in Nets
    /\ target_net = model
    /\ batches_left = 0
    /\ batches_done = 0
    /\ batch = <<>>
    /\ states = <<>>
    /\ q_vals = <<>>
    /\ total_rewards = <<>>
    /\ batches_count = 0
    /\ batches_sum_q0 = 0
    /\ batches_sum_total_reward = 0
    /\ epsilon = run.epsilon
    /\ sync_log = {}

\* lines 94-177 run to the try statement
Setup ==
    /\ pc = "setup"
    /\ pc' = "populate"
    /\ UNCHANGED <<run, exit_reason, idx, env_closed, close_pos, buffer,
                   inserted, model, target_net, batches_left, batches_done,
                   batch, states, q_vals, total_rewards, batches_count,
                   batches_sum_q0, batches_sum_total_reward, epsilon, sync_log>>

\* a statement of lines 94-177 raises: the program ends outside the try
SetupFails ==
    /\ pc = "setup"
    /\ pc' = "exit"
    /\ exit_reason' = "setup_error"
    /\ UNCHANGED <<run, idx, env_closed, close_pos, buffer, inserted, model,
                   target_net, batches_left, batches_done, batch, states,
                   q_vals, total_rewards, batches_count, batches_sum_q0,
                   batches_sum_total_reward, epsilon, sync_log>>

\* lines 183-186: populate the store, then start the generator of batches
Populate ==
    /\ pc = "populate"
    /\ \E new \in SeqsOfLen(SourceChains(run.n_steps), run.populate) :
           /\ buffer' = InsertAll(buffer, run.size, inserted, new)
           /\ inserted' = inserted + Len(new)
    /\ batches_left' = BatchCount(buffer', run.batch_size)
    /\ batches_done' = 0
    /\ pc' = "batches"
    /\ UNCHANGED <<run, exit_reason, idx, env_closed, close_pos, model,
                   target_net, batch, states, q_vals, total_rewards,
                   batches_count, batches_sum_q0, batches_sum_total_reward,
                   epsilon, sync_log>>

\* line 183: an environment raises after k chains have been stored
PopulateFails ==
    /\ pc = "populate"
    /\ \E k \in 0..(run.populate - 1) :
           \E new \in SeqsOfLen(SourceChains(run.n_steps), k) :
               /\ buffer' = InsertAll(buffer, run.size, inserted, new)
               /\ inserted' = inserted + k
    /\ pc' = "finally"
    /\ exit_reason' = "error"
    /\ UNCHANGED <<run, idx, env_closed, close_pos, model, target_net,
                   batches_left, batches_done, batch, states, q_vals,
                   total_rewards, batches_count, batches_sum_q0,
                   batches_sum_total_reward, epsilon, sync_log>>

\* batch_to_train without the count of batches
batch_to_train_NoCount(b) ==
    /\ states' = V0(b)
    /\ q_vals' = Q0(b)
    /\ total_rewards' = TotalRewards(b)
    /\ batches_count' = batches_count
    /\ batches_sum_q0' = batches_sum_q0 + Q0Mean(b)
    /\ batches_sum_total_reward' = batches_sum_total_reward + TotalMean(b)

\* lines 124-174, applied to the batch b
batch_to_train(b) ==
    /\ states' = V0(b)
    /\ q_vals' = Q0(b)
    /\ total_rewards' = TotalRewards(b)
    /\ batches_count' = batches_count + 1
    /\ batches_sum_q0' = batches_sum_q0 + Q0Mean(b)
    /\ batches_sum_total_reward' = batches_sum_total_reward + TotalMean(b)

\* lines 186-190: the generator yields a batch, drawn uniformly with
\* replacement from the store, and batch_to_train converts it
BatchToTrain ==
    /\ pc = "batches"
    /\ batches_left > 0
    /\ \E pick \in [1..run.batch_size -> 1..Len(buffer)] :
           /\ batch' = [i \in 1..run.batch_size |-> buffer[pick[i]].exps]
           /\ batch_to_train(batch')
    /\ batches_done' = batches_done + 1
    /\ pc' = "optimize"
    /\ UNCHANGED <<run, exit_reason, idx, env_closed, close_pos, buffer,
                   inserted, model, target_net, batches_left, epsilon,
                   sync_log>>

\* lines 192-200: the loss, its gradient and one step of the optimizer; the
\* batch and the training data of this pass are not read again
Optimize ==
    /\ pc = "optimize"
    /\ model' \in Nets
    /\ batches_left' = batches_left - 1
    /\ pc' = "batches"
    /\ batch' = <<>>
    /\ states' = <<>>
    /\ q_vals' = <<>>
    /\ total_rewards' = <<>>
    /\ UNCHANGED <<run, exit_reason, idx, env_closed, close_pos, buffer,
                   inserted, target_net, batches_done, batches_count,
                   batches_sum_q0, batches_sum_total_reward, epsilon, sync_log>>

\* lines 190-199: an evaluation or the update of the estimator raises
EstimatorFails ==
    /\ \/ pc = "batches" /\ batches_left > 0
       \/ pc = "optimize"
    /\ pc' = "finally"
    /\ exit_reason' = "error"
    /\ UNCHANGED <<run, idx, env_closed, close_pos, buffer, inserted, model,
                   target_net, batches_left, batches_done, batch, states,
                   q_vals, total_rewards, batches_count, batches_sum_q0,
                   batches_sum_total_reward, epsilon, sync_log>>

\* lines 202-205: the batch loop is over, epsilon decays
Decay ==
    /\ pc = "batches"
    /\ batches_left = 0
    /\ epsilon' = DecayEpsilon(epsilon)
    /\ pc' = "log"
    /\ UNCHANGED <<run, exit_reason, idx, env_closed, close_pos, buffer,
                   inserted, model, target_net, batches_left, batches_done,
                   batch, states, q_vals, total_rewards, batches_count,
                   batches_sum_q0, batches_sum_total_reward, sync_log>>

\* lines 217-220: the means are logged and the running sums reset
LogMeans ==
    /\ pc = "log"
    /\ batches_count # 0
    /\ batches_count' = 0
    /\ batches_sum_q0' = 0
    /\ batches_sum_total_reward' = 0
    /\ pc' = "report"
    /\ UNCHANGED <<run, exit_reason, idx, env_closed, close_pos, buffer,
                   inserted, model, target_net, batches_left, batches_done,
                   batch, states, q_vals, total_rewards, epsilon, sync_log>>

\* line 217: batches_sum_q0 / batches_count raises ZeroDivisionError
LogMeansFails ==
    /\ pc = "log"
    /\ batches_count = 0
    /\ pc' = "finally"
    /\ exit_reason' = "error"
    /\ UNCHANGED <<run, idx, env_closed, close_pos, buffer, inserted, model,
                   target_net, batches_left, batches_done, batch, states,
                   q_vals, total_rewards, batches_count, batches_sum_q0,
                   batches_sum_total_reward, epsilon, sync_log>>

\* lines 225-241 in an iteration that reports: the mean reward is below the
\* bound of the runfile, or there is none
Report ==
    /\ pc = "report"
    /\ pc' = "sync"
    /\ UNCHANGED <<run, exit_reason, idx, env_closed, close_pos, buffer,
                   inserted, model, target_net, batches_left, batches_done,
                   batch, states, q_vals, total_rewards, batches_count,
                   batches_sum_q0, batches_sum_total_reward, epsilon, sync_log>>

\* lines 237-240: the mean reward has reached the bound, break
Stop ==
    /\ pc = "report"
    /\ idx % REPORT_ITERS = 0
    /\ pc' = "finally"
    /\ exit_reason' = "stop"
    /\ UNCHANGED <<run, idx, env_closed, close_pos, buffer, inserted, model,
                   target_net, batches_left, batches_done, batch, states,
                   q_vals, total_rewards, batches_count, batches_sum_q0,
                   batches_sum_total_reward, epsilon, sync_log>>

\* lines 250-252 and the next value of range: the target network is
\* synchronised when due, then the loop goes on or ends
Sync ==
    /\ pc = "sync"
    /\ IF SyncDue(idx)
       THEN target_net' = model /\ sync_log' = sync_log \cup {idx}
       ELSE UNCHANGED <<target_net, sync_log>>
    /\ IF idx + 1 < MaxIters
       THEN idx' = idx + 1 /\ pc' = "populate" /\ UNCHANGED exit_reason
       ELSE idx' = idx /\ pc' = "finally" /\ exit_reason' = "cap"
    /\ UNCHANGED <<run, env_closed, close_pos, buffer, inserted, model,
                   batches_left, batches_done, batch, states, q_vals,
                   total_rewards, batches_count, batches_sum_q0,
                   batches_sum_total_reward, epsilon>>

\* lines 254-255: one environment is closed
CloseEnv ==
    /\ pc = "finally"
    /\ close_pos <= PoolSize
    /\ env_closed' = [env_closed EXCEPT ![close_pos] = TRUE]
    /\ close_pos' = close_pos + 1
    /\ UNCHANGED <<run, pc, exit_reason, idx, buffer, inserted, model,
                   target_net, batches_left, batches_done, batch, states,
                   q_vals, total_rewards, batches_count, batches_sum_q0,
                   batches_sum_total_reward, epsilon, sync_log>>

\* line 255: env.close() raises, the finally block is left
CloseFails ==
    /\ pc = "finally"
    /\ close_pos <= PoolSize
    /\ pc' = "exit"
    /\ UNCHANGED <<run, exit_reason, idx, env_closed, close_pos, buffer,
                   inserted, model, target_net, batches_left, batches_done,
                   batch, states, q_vals, total_rewards, batches_count,
                   batches_sum_q0, batches_sum_total_reward, epsilon, sync_log>>

\* lines 254-258: the loop over env_pool is over, the program ends
Exit ==
    /\ pc = "finally"
    /\ close_pos > PoolSize
    /\ pc' = "exit"
    /\ UNCHANGED <<run, exit_reason, idx, env_closed, close_pos, buffer,
                   inserted, model, target_net, batches_left, batches_done,
                   batch, states, q_vals, total_rewards, batches_count,
                   batches_sum_q0, batches_sum_total_reward, epsilon, sync_log>>

Next ==
    \/ Setup
    \/ SetupFails
    \/ Populate
    \/ PopulateFails
    \/ BatchToTrain
    \/ Optimize
    \/ EstimatorFails
    \/ Decay
    \/ LogMeans
    \/ LogMeansFails
    \/ Report
    \/ Stop
    \/ Sync
    \/ CloseEnv
    \/ CloseFails
    \/ Exit

Spec == Init /\ [][Next]_vars

----------------------------------------------------------------------------
(* batch_to_train on every chain: the batch loop of the third iteration    *)
(* (idx = 2) of a run that synchronises every third iteration, so that the *)
(* online estimator has been trained twice since the one synchronisation,  *)
(* entered with a store that populate has filled with chains drawn from    *)
(* every chain an experience source of up to MaxSteps steps can emit.      *)

\* what populate has stored: any one chain, or any two chains of one
\* transition
Stored(n) ==
    {<<c>> : c \in Chains(n)}
        \cup {<<c, d>> : c \in ChainsOfLen(1), d \in ChainsOfLen(1)}

RunFilesBT ==
    [use_target_dqn : BOOLEAN,
     use_double_dqn : BOOLEAN,
     n_steps : 1..MaxSteps,
     size : {1, 2},
     populate : {1, 2},
     batch_size : {1, 2},
     copy_target_net_every_epoch : {3},
     epsilon : {EpsOne},
     epsilon_decay : {[num |-> 1, den |-> 1]},
     has_epsilon_minimum : {FALSE},
     epsilon_minimum : {0}]

InitBT ==
    /\ run \in RunFilesBT
    /\ pc = "batches"
    /\ exit_reason = "none"
    /\ idx = 2
    /\ env_closed = [e \in Envs |-> FALSE]
    /\ close_pos = 1
    /\ run.size = run.populate
    /\ run.batch_size <= run.populate
    /\ \E new \in Stored(run.n_steps) :
           /\ Len(new) = run.populate
           /\ (\A i \in 1..Len(new) : IsChain(new[i], run.n_steps))
           /\ buffer = InsertAll(<<>>, run.size, idx * run.populate, new)
    /\ inserted = (idx + 1) * run.populate
    /\ model \in Nets
    /\ target_net \in Nets
    /\ batches_left = BatchCount(buffer, run.batch_size)
    /\ batches_done = 0
    /\ batch = <<>>
    /\ states = <<>>
    /\ q_vals = <<>>
    /\ total_rewards = <<>>
    /\ batches_count = 0
    /\ batches_sum_q0 = 0
    /\ batches_sum_total_reward = 0
    /\ epsilon = run.epsilon
    /\ sync_log = {0}

NextBT == BatchToTrain

SpecBT == InitBT /\ [][NextBT]_vars

----------------------------------------------------------------------------
(* Target construction: what batch_to_train has returned when the optimizer *)
(* step is about to run (pc = "optimize").                                   *)

Rows == 1..Len(batch)
FirstAction(i) == batch[i][1].action
Reward(i, k) == batch[i][k].reward * Scale
NonTerminal3(i) == Len(batch[i]) = 3 /\ ~batch[i][3].done

\* C1 as stated: on a non-terminal chain with rewards r1, r2, r3 and
\* bootstrap value V the entry of the taken action is
\* r1 + g*(r2 + g*(r3 + g*V)), every reward of the chain being accumulated.
C1_AllRewards ==
    pc = "optimize" =>
        \A i \in Rows :
            NonTerminal3(i) =>
                q_vals[i][FirstAction(i)] =
                    Reward(i, 1) + GammaMul(Reward(i, 2)
                        + GammaMul(Reward(i, 3) + GammaMul(total_rewards[i])))

\* C1 amended: on a non-terminal chain of three transitions with rewards
\* r1, r2, r3 and bootstrap value V the entry of the taken action is
\* r1 + g*(r2 + g*V): the rewards of every transition but the last are
\* accumulated once, in reverse order, seeded with the bootstrap value.
C1_RewardsButLast ==
    pc = "optimize" =>
        \A i \in Rows :
            NonTerminal3(i) =>
                q_vals[i][FirstAction(i)] =
                    Reward(i, 1) + GammaMul(Reward(i, 2)
                        + GammaMul(total_rewards[i]))

C1_Witness ==
    /\ pc = "optimize"
    /\ \E i \in Rows :
           /\ NonTerminal3(i)
           /\ batch[i][1].reward = 0
           /\ batch[i][2].reward = 1
           /\ batch[i][3].reward = 1
           /\ total_rewards[i] > 0

\* C2: for a chain of one transition with done = true and reward r, the
\* entry of the taken action equals r, in every mode and for every estimator.
C2_TerminalReward ==
    pc = "optimize" =>
        \A i \in Rows :
            (Len(batch[i]) = 1 /\ batch[i][1].done) =>
                q_vals[i][FirstAction(i)] = Reward(i, 1)

\* the estimators as they were during the call (the optimizer has not run)
BootState(i) == batch[i][Len(batch[i])].state
OnlineArgMax(i) == RowArgMax(model[BootState(i)])

\* C3 as stated: with double mode on, the bootstrap value of every chain is
\* the target network's output at the argmax of the online estimator, also
\* when the target-network option is off.
C3_DoubleAlways ==
    (pc = "optimize" /\ run.use_double_dqn) =>
        \A i \in Rows :
            total_rewards[i] = target_net[BootState(i)][OnlineArgMax(i)]

\* C3 amended: with double mode and the target-network option both on, the
\* bootstrap value of every chain is the target network's output at the
\* argmax of the online estimator; with double mode on and the
\* target-network option off it is the online estimator's own maximum.
C3_DoubleWithTarget ==
    (pc = "optimize" /\ run.use_double_dqn) =>
        \A i \in Rows :
            IF run.use_target_dqn
            THEN total_rewards[i] = target_net[BootState(i)][OnlineArgMax(i)]
            ELSE total_rewards[i] = RowMax(model[BootState(i)])

C3_Witness ==
    /\ pc = "optimize"
    /\ run.use_double_dqn
    /\ run.use_target_dqn
    /\ Len(batch) = 2
    /\ \E i \in Rows :
           /\ total_rewards[i] # RowMax(target_net[BootState(i)])
           /\ total_rewards[i] # RowMax(model[BootState(i)])

\* C7: the returned states are the first states of the chains in batch
\* order, and every entry of the returned target other than the one of the
\* action of the chain's first transition is the online estimator's
\* prediction for the first state.
C7_OnlyTakenAction ==
    pc = "optimize" =>
        /\ Len(states) = Len(batch)
        /\ Len(q_vals) = Len(batch)
        /\ \A i \in Rows :
               /\ states[i] = batch[i][1].state
               /\ \A a \in Actions \ {FirstAction(i)} :
                      q_vals[i][a] = model[batch[i][1].state][a]

C7_Witness ==
    /\ pc = "optimize"
    /\ Len(batch) = 2
    /\ batch[1][1].state # batch[2][1].state
    /\ FirstAction(1) # FirstAction(2)
    /\ \A i \in Rows :
           q_vals[i][FirstAction(i)] # model[batch[i][1].state][FirstAction(i)]

----------------------------------------------------------------------------
(* The training loop *)

InLoop == pc \in {"populate", "batches", "optimize", "log", "report", "sync"}

\* number of decays of epsilon so far
DecaysDone == IF pc \in {"log", "report", "sync"} THEN idx + 1 ELSE idx

\* the floor of epsilon: epsilon_minimum, or none
EpsFloor == IF run.has_epsilon_minimum THEN run.epsilon_minimum ELSE 0

\* max(f, e0 * d^k)
EpsilonAfter(k) ==
    Max2(EpsFloor,
         (run.epsilon * Pow(run.epsilon_decay.num, k))
             \div Pow(run.epsilon_decay.den, k))

\* C4: after k iterations epsilon is max(f, e0 * d^k) (f = 0 when the
\* runfile sets no minimum); it never increases, stays within [f, 1], and
\* changes only in the one decay step that follows the batch loop.
C4_EpsilonSchedule ==
    /\ [](InLoop => epsilon = EpsilonAfter(DecaysDone))
    /\ [](EpsFloor <= epsilon /\ epsilon <= EpsOne)
    /\ [][epsilon' <= epsilon]_vars
    /\ [][epsilon' # epsilon =>
            (pc = "batches" /\ batches_left = 0 /\ pc' = "log")]_vars

C4_Witness ==
    /\ pc = "log"
    /\ idx = 2
    /\ run.has_epsilon_minimum
    /\ epsilon = run.epsilon_minimum
    /\ RateMul(run.epsilon_minimum, run.epsilon_decay) < epsilon

\* the iterations whose body has run to its end
Completed(i) == i < idx \/ (i = idx /\ exit_reason = "cap")

\* C5 as stated: every iteration the loop has entered, the one that the
\* mean-reward stop ends included, has synchronised the target network
\* exactly if its index is a multiple of the cadence.
C5_SyncEveryEntered ==
    exit_reason \in {"cap", "stop"} =>
        \A i \in 0..idx :
            (i \in sync_log) <=> (i % run.copy_target_net_every_epoch = 0)

\* C5 amended: an iteration has synchronised the target network exactly if
\* its body has run to its end and its index is a multiple of the cadence,
\* index 0 included; the iteration that the mean-reward stop (or a failure)
\* ends does not synchronise.  A synchronisation copies the online
\* estimator's parameters.
C5_SyncEveryCompleted ==
    /\ [](\A i \in 0..idx :
             (i \in sync_log) <=>
                 (Completed(i) /\ i % run.copy_target_net_every_epoch = 0))
    /\ [](sync_log \subseteq 0..idx)
    /\ [][sync_log' # sync_log => target_net' = model]_vars

C5_Witness ==
    /\ pc = "exit"
    /\ exit_reason = "cap"
    /\ run.copy_target_net_every_epoch = 2
    /\ 0 \in sync_log
    /\ 1 \notin sync_log
    /\ 2 \in sync_log

\* C6: once the pool exists, every environment is closed when the program
\* has ended, whatever the exit path.
C6_AllClosedAtExit ==
    pc = "exit" => \A e \in Envs : env_closed[e]

\* the step of the batch loop that calls batch_to_train
CallStep == pc = "batches" /\ pc' = "optimize"

C9_Fifo ==
    /\ [](/\ Len(buffer) <= run.size
          /\ Len(buffer) = (IF inserted < run.size THEN inserted ELSE run.size)
          /\ \A i \in 1..Len(buffer) :
                 buffer[i].seq = inserted - Len(buffer) + i)
    /\ [][(pc \in {"batches", "optimize"}) => (buffer' = buffer)]_vars

C9_Witness ==
    /\ inserted = run.size + 1
    /\ Len(buffer) = run.size
    /\ buffer[1].seq = 2
    /\ pc = "optimize"

\* C10: when the means are logged the counter is the number of batches of
\* this iteration and is at least 1.
C10_CountPositive ==
    pc = "log" => (batches_count = batches_done /\ batches_count >= 1)

====
